---- MODULE Spec2Model ----
(***************************************************************************)
(* Portfolio tracker: the Position table and the PortfolioService CRUD     *)
(* operations (app/models.py, app/portfolio_service.py).                   *)
(*                                                                         *)
(* Representation.                                                         *)
(*   - A symbol is a sequence of characters; a character is a one-element  *)
(*     name ("a", "A", "sz" for U+00DF, ...), so that str.upper() is a     *)
(*     real conversion that can change both case and length.               *)
(*   - shares, purchase_price and every amount computed from them are      *)
(*     Decimal values: sign, coefficient digits and exponent.              *)
(*   - Optional[T] is <<>> for None and <<v>> for a value v.               *)
(*   - The table is the set of its rows. The primary key is generated by   *)
(*     the database session, which is not part of the service source.      *)
(*   - datetime.utcnow() is a clock whose successive readings never        *)
(*     decrease but may coincide (finite resolution).                      *)
(***************************************************************************)
EXTENDS Integers, Sequences, FiniteSets, TLC

VARIABLES
    positions,   \* rows of the "positions" table
    next_id,     \* next primary key the database hands out
    now,         \* last reading of datetime.utcnow()
    ret,         \* the last call and its outcome
    issued,      \* history: identifiers returned by create_position so far
    deleted,     \* history: identifiers delete_position reported removed
    expected,    \* history: what was asked for, creation overlaid by updates
    call         \* the valuation or price call in progress, step by step

vars == <<positions, next_id, now, ret, issued, deleted, expected, call>>

----------------------------------------------------------------------------
(* Bounds *)

MaxIds == 2
MaxClock == 1

----------------------------------------------------------------------------
(* decimal.Decimal as the service uses it: sign, coefficient digits and     *)
(* exponent, with the arithmetic of the default context (prec significant   *)
(* digits, ROUND_HALF_EVEN). A coefficient is a natural number of any size, *)
(* written as its decimal digits, most significant first, <<>> for zero.    *)
(* The arithmetic on coefficients works on limbs (groups of three digits,   *)
(* least significant first).                                                *)

prec == 28

limb_base == 1000

pow10(j) == CASE j = 0 -> 1 [] j = 1 -> 10 [] j = 2 -> 100

\* F(v) and F(v, w), with v and w computed once however often F uses them
Let(F(_), v) == CHOOSE out \in {F(x) : x \in {v}} : TRUE
Let2(F(_, _), v, w) == CHOOSE out \in {F(x, y) : x \in {v}, y \in {w}} : TRUE

limb(a, i) == IF i <= Len(a) THEN a[i] ELSE 0

\* drop the zero limbs at the most significant end
limbs_trim(a) ==
    Let(LAMBDA used : IF used = {} THEN <<>>
                      ELSE SubSeq(a, 1, CHOOSE m \in used : \A i \in used : i <= m),
        {i \in 1..Len(a) : a[i] # 0})

limbs_less(a, b) ==
    \/ Len(a) < Len(b)
    \/ /\ Len(a) = Len(b)
       /\ \E i \in 1..Len(a) : a[i] < b[i] /\ \A j \in (i + 1)..Len(a) : a[j] = b[j]

RECURSIVE limbs_add_from(_, _, _, _)
limbs_add_from(a, b, i, carry) ==
    IF i > Len(a) /\ i > Len(b)
    THEN IF carry = 0 THEN <<>> ELSE <<carry>>
    ELSE Let(LAMBDA s : <<s % limb_base>> \o limbs_add_from(a, b, i + 1, s \div limb_base),
             limb(a, i) + limb(b, i) + carry)

limbs_add(a, b) == Let2(LAMBDA x, y : limbs_add_from(x, y, 1, 0), a, b)

\* a - b for a >= b
RECURSIVE limbs_sub_from(_, _, _, _)
limbs_sub_from(a, b, i, borrow) ==
    IF i > Len(a)
    THEN <<>>
    ELSE Let(LAMBDA d : <<IF d < 0 THEN d + limb_base ELSE d>>
                           \o limbs_sub_from(a, b, i + 1, IF d < 0 THEN 1 ELSE 0),
             a[i] - limb(b, i) - borrow)

limbs_sub(a, b) == Let2(LAMBDA x, y : Let(LAMBDA d : limbs_trim(d), limbs_sub_from(x, y, 1, 0)), a, b)

\* a * m for one limb m
RECURSIVE limbs_mul_small_from(_, _, _, _)
limbs_mul_small_from(a, m, i, carry) ==
    IF i > Len(a)
    THEN IF carry = 0 THEN <<>> ELSE <<carry>>
    ELSE Let(LAMBDA s : <<s % limb_base>> \o limbs_mul_small_from(a, m, i + 1, s \div limb_base),
             a[i] * m + carry)

limbs_mul_small(a, m) ==
    Let2(LAMBDA x, y : IF y = 0 THEN <<>> ELSE limbs_mul_small_from(x, y, 1, 0), a, m)

\* a * limb_base
limbs_shift(a) == Let(LAMBDA x : IF x = <<>> THEN x ELSE <<0>> \o x, a)

\* a times the limbs i.. of b
RECURSIVE limbs_mul_from(_, _, _)
limbs_mul_from(a, b, i) ==
    IF i > Len(b)
    THEN <<>>
    ELSE limbs_add(limbs_mul_small(a, b[i]), limbs_shift(limbs_mul_from(a, b, i + 1)))

\* r \div b for r < b * limb_base: an estimate from the leading limbs, which
\* is the quotient or exceeds it by at most 2
quot_limb(r, b) ==
    LET n == Len(b)
    IN  IF n = 1
        THEN (limb(r, 2) * limb_base + limb(r, 1)) \div b[1]
        ELSE Let(LAMBDA est : IF ~limbs_less(r, limbs_mul_small(b, est)) THEN est
                              ELSE IF ~limbs_less(r, limbs_mul_small(b, est - 1)) THEN est - 1
                              ELSE est - 2,
                 Let(LAMBDA lead : IF lead < limb_base THEN lead ELSE limb_base - 1,
                     (limb(r, n + 1) * limb_base * limb_base + limb(r, n) * limb_base
                      + limb(r, n - 1)) \div (b[n] * limb_base + b[n - 1])))

\* one step of the long division: the limb a[i] is brought down to the
\* remainder of the limbs above it
divmod_limb(a, b, i, high) ==
    IF high.r = <<>> /\ a[i] = 0
    THEN [q |-> limbs_shift(high.q), r |-> <<>>]
    ELSE Let(LAMBDA r1 : Let(LAMBDA k : [q |-> limbs_trim(<<k>> \o high.q),
                                         r |-> limbs_sub(r1, limbs_mul_small(b, k))],
                             quot_limb(r1, b)),
             limbs_trim(<<a[i]>> \o high.r))

\* quotient and remainder of the limbs i.. of a by b > 0, by long division
RECURSIVE limbs_divmod_from(_, _, _)
limbs_divmod_from(a, b, i) ==
    IF i > Len(a)
    THEN [q |-> <<>>, r |-> <<>>]
    ELSE Let(LAMBDA high : divmod_limb(a, b, i, high), limbs_divmod_from(a, b, i + 1))

\* digits <-> limbs
to_limbs(d) ==
    Let(LAMBDA x : LET at(p) == IF p < Len(x) THEN x[Len(x) - p] ELSE 0
                   IN  [k \in 1..((Len(x) + 2) \div 3) |->
                           at(3 * k - 3) + 10 * at(3 * k - 2) + 100 * at(3 * k - 1)],
        d)

nat_strip(d) ==
    Let2(LAMBDA x, used : IF used = {} THEN <<>>
                          ELSE SubSeq(x, CHOOSE m \in used : \A i \in used : m <= i, Len(x)),
         d, {i \in 1..Len(d) : d[i] # 0})

from_limbs(a) ==
    Let(LAMBDA x : nat_strip([i \in 1..(3 * Len(x)) |->
                                 (x[((3 * Len(x) - i) \div 3) + 1]
                                  \div pow10((3 * Len(x) - i) % 3)) % 10]),
        a)

nat_less(a, b) ==
    \/ Len(a) < Len(b)
    \/ /\ Len(a) = Len(b)
       /\ \E i \in 1..Len(a) : a[i] < b[i] /\ \A j \in 1..(i - 1) : a[j] = b[j]

nat_add(a, b) == from_limbs(limbs_add(to_limbs(a), to_limbs(b)))
nat_sub(a, b) == from_limbs(limbs_sub(to_limbs(a), to_limbs(b)))
nat_mul(a, b) == from_limbs(Let2(LAMBDA x, y : limbs_mul_from(x, y, 1), to_limbs(a), to_limbs(b)))
nat_divmod(a, b) ==
    Let(LAMBDA dm : [q |-> from_limbs(dm.q), r |-> from_limbs(dm.r)],
        Let2(LAMBDA x, y : limbs_divmod_from(x, y, 1), to_limbs(a), to_limbs(b)))

\* a * 10^n
nat_shift(a, n) == Let(LAMBDA x : IF x = <<>> THEN x ELSE x \o [i \in 1..n |-> 0], a)

\* Decimal: as_tuple() is (sign, digits, exponent); the value is
\* (-1)^sign * digits * 10^exp
Decimal(sign, digits, exp) == [sign |-> sign, digits |-> digits, exp |-> exp]

\* Context._fix: round to prec significant digits, ROUND_HALF_EVEN
fix(d) ==
    Let(LAMBDA x :
            IF Len(x.digits) <= prec
            THEN x
            ELSE LET n == Len(x.digits)
                     kept == SubSeq(x.digits, 1, prec)
                     half == x.digits[prec + 1]
                     rest_zero == \A i \in (prec + 2)..n : x.digits[i] = 0
                     up == \/ half > 5
                           \/ half = 5 /\ (~rest_zero \/ kept[prec] % 2 = 1)
                 IN  Let(LAMBDA c : IF Len(c) > prec
                                    THEN Decimal(x.sign, SubSeq(c, 1, prec), x.exp + (n - prec) + 1)
                                    ELSE Decimal(x.sign, c, x.exp + (n - prec)),
                         IF up THEN nat_add(kept, <<1>>) ELSE kept),
        d)

\* the product and the sum before rounding
exact_mul(x, y) ==
    Let2(LAMBDA u, v : Decimal((u.sign + v.sign) % 2, nat_mul(u.digits, v.digits), u.exp + v.exp),
         x, y)

exact_add(x, y) ==
    Let2(LAMBDA u, v :
             LET e == IF u.exp < v.exp THEN u.exp ELSE v.exp
             IN  Let2(LAMBDA a, b :
                          IF u.sign = v.sign THEN Decimal(u.sign, nat_add(a, b), e)
                          ELSE IF nat_less(a, b) THEN Decimal(v.sign, nat_sub(b, a), e)
                          ELSE IF nat_less(b, a) THEN Decimal(u.sign, nat_sub(a, b), e)
                          ELSE Decimal(0, <<>>, e),
                      nat_shift(u.digits, u.exp - e), nat_shift(v.digits, v.exp - e)),
         x, y)

Decimal_neg(x) == Let(LAMBDA u : Decimal(1 - u.sign, u.digits, u.exp), x)

\* Decimal.__mul__, __add__, __sub__
Decimal_mul(x, y) == fix(exact_mul(x, y))
Decimal_add(x, y) == fix(exact_add(x, y))
Decimal_sub(x, y) == fix(exact_add(x, Decimal_neg(y)))

\* an exact quotient drops trailing zeros up to the ideal exponent
to_ideal(coeff, exp, ideal_exp) ==
    LET n == Len(coeff)
        zeros == {k \in 0..n : k <= ideal_exp - exp /\ \A i \in (n - k + 1)..n : coeff[i] = 0}
    IN  Let(LAMBDA k : [coeff |-> SubSeq(coeff, 1, n - k), exp |-> exp + k],
            CHOOSE m \in zeros : \A j \in zeros : j <= m)

\* x / y for x other than zero: the coefficients are shifted to give
\* prec + 1 digits of quotient, and a remainder makes the last digit sticky
divide(x, y, shift) ==
    LET sign == (x.sign + y.sign) % 2
        exp == x.exp - y.exp - shift
    IN  Let(LAMBDA dm :
                IF dm.r # <<>>
                THEN fix(Decimal(sign,
                                 IF dm.q = <<>> \/ dm.q[Len(dm.q)] % 5 = 0
                                 THEN nat_add(dm.q, <<1>>) ELSE dm.q,
                                 exp))
                ELSE Let(LAMBDA t : fix(Decimal(sign, t.coeff, t.exp)),
                         to_ideal(dm.q, exp, x.exp - y.exp)),
            IF shift >= 0
            THEN nat_divmod(nat_shift(x.digits, shift), y.digits)
            ELSE nat_divmod(x.digits, nat_shift(y.digits, -shift)))

\* Decimal.__truediv__ for a divisor other than zero
Decimal_truediv(x, y) ==
    Let2(LAMBDA u, v : IF u.digits = <<>>
                       THEN fix(Decimal((u.sign + v.sign) % 2, <<>>, u.exp - v.exp))
                       ELSE divide(u, v, Len(v.digits) - Len(u.digits) + prec + 1),
         x, y)

\* comparisons are by value
Decimal_is_zero(x) == x.digits = <<>>
Decimal_gt0(x) == x.sign = 0 /\ x.digits # <<>>
Decimal_lt0(x) == x.sign = 1 /\ x.digits # <<>>
Decimal_eq(x, y) == Decimal_is_zero(exact_add(x, Decimal_neg(y)))
Decimal_lt(x, y) == Decimal_lt0(exact_add(x, Decimal_neg(y)))

----------------------------------------------------------------------------
(* app/models.py *)

max_length == 20
max_digits == 20
shares_places == 8
price_places == 2

NoId == 0

STOCK == "stock"
CRYPTOCURRENCY == "crypto"
AssetType == {STOCK, CRYPTOCURRENCY}

None == <<>>
Some(v) == <<v>>

\* str.upper() on one character
upper_char(c) ==
    CASE c = "a" -> <<"A">>
      [] c = "b" -> <<"B">>
      [] c = "sz" -> <<"S", "S">>
      [] OTHER -> <<c>>

RECURSIVE upper(_)
upper(s) == IF s = <<>> THEN <<>> ELSE upper_char(Head(s)) \o upper(Tail(s))

\* the two default_factory clock reads taken in the opposite order
Position_swapped(asset_symbol, asset_type, shares, purchase_price, t1, t2) ==
    [id |-> NoId,
     asset_symbol |-> asset_symbol,
     asset_type |-> asset_type,
     shares |-> shares,
     purchase_price |-> purchase_price,
     created_at |-> t2,
     updated_at |-> t1]

\* Position(...): the two default_factory clock reads, id left to the database
Position(asset_symbol, asset_type, shares, purchase_price, t1, t2) ==
    [id |-> NoId,
     asset_symbol |-> asset_symbol,
     asset_type |-> asset_type,
     shares |-> shares,
     purchase_price |-> purchase_price,
     created_at |-> t1,
     updated_at |-> t2]

\* Field(max_digits=..., decimal_places=...): the digits of the value as
\* written, those after the decimal point and those before it
within_digits(d, digits_limit, places_limit) ==
    LET decimals == IF d.exp < 0 THEN -d.exp ELSE 0
        digits == IF d.exp >= 0 THEN Len(d.digits) + d.exp
                  ELSE IF Len(d.digits) > decimals THEN Len(d.digits) ELSE decimals
    IN  /\ digits <= digits_limit
        /\ decimals <= places_limit
        /\ digits - decimals <= digits_limit - places_limit

\* PositionCreate without gt=0 on shares
PositionCreate_no_gt(raw) ==
    /\ Len(raw.asset_symbol) <= max_length
    /\ raw.asset_type \in AssetType
    /\ within_digits(raw.shares, max_digits, shares_places)
    /\ Decimal_gt0(raw.purchase_price)
    /\ within_digits(raw.purchase_price, max_digits, price_places)

\* PositionCreate(...): the field constraints checked on construction
PositionCreate(raw) ==
    /\ Len(raw.asset_symbol) <= max_length
    /\ raw.asset_type \in AssetType
    /\ Decimal_gt0(raw.shares)
    /\ within_digits(raw.shares, max_digits, shares_places)
    /\ Decimal_gt0(raw.purchase_price)
    /\ within_digits(raw.purchase_price, max_digits, price_places)

\* PositionUpdate whose Optional fields skip the gt=0 constraint
PositionUpdate_no_gt(raw) ==
    /\ raw.asset_symbol # None => Len(raw.asset_symbol[1]) <= max_length
    /\ raw.asset_type # None => raw.asset_type[1] \in AssetType
    /\ raw.shares # None => within_digits(raw.shares[1], max_digits, shares_places)
    /\ raw.purchase_price # None =>
          within_digits(raw.purchase_price[1], max_digits, price_places)

\* PositionUpdate(...): every field optional, constraints apply when supplied
PositionUpdate(raw) ==
    /\ raw.asset_symbol # None => Len(raw.asset_symbol[1]) <= max_length
    /\ raw.asset_type # None => raw.asset_type[1] \in AssetType
    /\ raw.shares # None =>
          /\ Decimal_gt0(raw.shares[1])
          /\ within_digits(raw.shares[1], max_digits, shares_places)
    /\ raw.purchase_price # None =>
          /\ Decimal_gt0(raw.purchase_price[1])
          /\ within_digits(raw.purchase_price[1], max_digits, price_places)

----------------------------------------------------------------------------
(* Database session (app/database.py is not part of the sources) *)

\* session.get(Position, position_id): the row with that primary key, or None
session_get(rows, position_id) ==
    LET hit == {p \in rows : p.id = position_id}
    IN  IF hit = {} THEN None ELSE Some(CHOOSE p \in hit : TRUE)

\* session.add + commit + refresh: a row without id gets the next key
session_add(position, seq) ==
    IF position.id = NoId THEN [position EXCEPT !.id = seq] ELSE position

\* list(session.exec(select(Position))): every row once, in any order
select_all(rows) ==
    {s \in [1..Cardinality(rows) -> rows] :
        \A i, j \in 1..Cardinality(rows) : s[i] = s[j] => i = j}

----------------------------------------------------------------------------
(* app/portfolio_service.py: each operation gives the table it leaves and *)
(* the value it returns                                                   *)

\* create_position that numbers the new row by the size of the table
create_position_count_id(rows, position_data, seq, t1, t2) ==
    LET position == [Position(upper(position_data.asset_symbol),
                              position_data.asset_type,
                              position_data.shares,
                              position_data.purchase_price,
                              t1, t2) EXCEPT !.id = Cardinality(rows) + 1]
        stored == session_add(position, seq)
    IN  [rows |-> rows \cup {stored}, val |-> stored]

\* create_position that stores the symbol as given
create_position_no_upper(rows, position_data, seq, t1, t2) ==
    LET position == Position(position_data.asset_symbol,
                             position_data.asset_type,
                             position_data.shares,
                             position_data.purchase_price,
                             t1, t2)
        stored == session_add(position, seq)
    IN  [rows |-> rows \cup {stored}, val |-> stored]

create_position(rows, position_data, seq, t1, t2) ==
    LET position == Position(upper(position_data.asset_symbol),
                             position_data.asset_type,
                             position_data.shares,
                             position_data.purchase_price,
                             t1, t2)
        stored == session_add(position, seq)
    IN  [rows |-> rows \cup {stored}, val |-> stored]

get_position(rows, position_id) == session_get(rows, position_id)

\* get_all_positions that stops after the first row
get_all_positions_first(rows) ==
    {IF s = <<>> THEN s ELSE <<s[1]>> : s \in select_all(rows)}

get_all_positions(rows) == select_all(rows)

\* update_position that falls back to the default asset type when none is given
update_position_type_default(rows, position_id, position_data, t) ==
    LET found == session_get(rows, position_id)
    IN  IF found = None
        THEN [rows |-> rows, val |-> None]
        ELSE LET position == found[1]
                 p1 == IF position_data.asset_symbol # None
                       THEN [position EXCEPT
                                !.asset_symbol = upper(position_data.asset_symbol[1])]
                       ELSE position
                 p2 == IF position_data.asset_type # None
                       THEN [p1 EXCEPT !.asset_type = position_data.asset_type[1]]
                       ELSE [p1 EXCEPT !.asset_type = STOCK]
                 p3 == IF position_data.shares # None
                       THEN [p2 EXCEPT !.shares = position_data.shares[1]]
                       ELSE p2
                 p4 == IF position_data.purchase_price # None
                       THEN [p3 EXCEPT !.purchase_price = position_data.purchase_price[1]]
                       ELSE p3
                 updated == [p4 EXCEPT !.updated_at = t]
             IN  [rows |-> (rows \ {position}) \cup {updated}, val |-> Some(updated)]

update_position(rows, position_id, position_data, t) ==
    LET found == session_get(rows, position_id)
    IN  IF found = None
        THEN [rows |-> rows, val |-> None]
        ELSE LET position == found[1]
                 p1 == IF position_data.asset_symbol # None
                       THEN [position EXCEPT
                                !.asset_symbol = upper(position_data.asset_symbol[1])]
                       ELSE position
                 p2 == IF position_data.asset_type # None
                       THEN [p1 EXCEPT !.asset_type = position_data.asset_type[1]]
                       ELSE p1
                 p3 == IF position_data.shares # None
                       THEN [p2 EXCEPT !.shares = position_data.shares[1]]
                       ELSE p2
                 p4 == IF position_data.purchase_price # None
                       THEN [p3 EXCEPT !.purchase_price = position_data.purchase_price[1]]
                       ELSE p3
                 updated == [p4 EXCEPT !.updated_at = t]
             IN  [rows |-> (rows \ {position}) \cup {updated}, val |-> Some(updated)]

\* delete_position that reports success whether or not the row exists
delete_position_always_true(rows, position_id) ==
    LET found == session_get(rows, position_id)
    IN  IF found = None
        THEN [rows |-> rows, val |-> TRUE]
        ELSE [rows |-> rows \ {found[1]}, val |-> TRUE]

\* delete_position whose delete statement has no predicate on the id
delete_position_all_rows(rows, position_id) ==
    LET found == session_get(rows, position_id)
    IN  IF found = None
        THEN [rows |-> rows, val |-> FALSE]
        ELSE [rows |-> {}, val |-> TRUE]

\* delete_position whose delete statement takes the rows created later too
delete_position_and_later(rows, position_id) ==
    LET found == session_get(rows, position_id)
    IN  IF found = None
        THEN [rows |-> rows, val |-> FALSE]
        ELSE [rows |-> {p \in rows : p.id < position_id}, val |-> TRUE]

delete_position(rows, position_id) ==
    LET found == session_get(rows, position_id)
    IN  IF found = None
        THEN [rows |-> rows, val |-> FALSE]
        ELSE [rows |-> rows \ {found[1]}, val |-> TRUE]

----------------------------------------------------------------------------
(* app/price_service.py and the provider (yfinance) it reads *)

\* the outcome of evaluating an expression: a value, or an exception raised
Ok(v) == [exc |-> "", val |-> v]
Raise(e) == [exc |-> e, val |-> None]

\* the exception classes the provider and the conversions raise; all of them
\* derive from Exception
Exception ==
    {"ConnectionError", "TimeoutError", "KeyError", "InvalidOperation", "AttributeError"}

\* values found in the provider's data: None, a float (given by the Decimal
\* that str() of it denotes) or a text that is no number
PyNone == [type |-> "NoneType"]
PyFloat(d) == [type |-> "float", value |-> d]
PyStr(t) == [type |-> "str", text |-> t]

\* Decimal(str(v)) for a provider value v
Decimal_of_str(v) == IF v.type = "float" THEN Ok(v.value) ELSE Raise("InvalidOperation")

\* str(d) for a Decimal d writes the sign, every digit and the exponent, and
\* Decimal(text) reads them back
str(d) == <<IF d.sign = 1 THEN "-" ELSE "", d.digits, d.exp>>
Decimal_of_text(text) == Decimal(IF text[1] = "-" THEN 1 ELSE 0, text[2], text[3])

\* what yf.Ticker(symbol) answers: ctor is the exception the constructor raises
\* ("" for none); info, fast_info and history are the outcomes of reading them
\* (dictionaries are records, history is the list of closing values)
Ticker(ctor, info, fast_info, history) ==
    [ctor |-> ctor, info |-> info, fast_info |-> fast_info, history |-> history]

price_fields == <<"regularMarketPrice", "currentPrice", "price", "regularMarketPreviousClose">>

USD == <<"-", "U", "S", "D">>

endswith(s, suffix) ==
    /\ Len(s) >= Len(suffix)
    /\ SubSeq(s, Len(s) - Len(suffix) + 1, Len(s)) = suffix

\* a normalization that appends the suffix to every cryptocurrency symbol
provider_symbol_always_suffix(symbol, asset_type) ==
    IF asset_type = CRYPTOCURRENCY THEN symbol \o USD ELSE symbol

\* price_service.py:26-28, the symbol handed to yf.Ticker
provider_symbol(symbol, asset_type) ==
    IF asset_type = CRYPTOCURRENCY /\ ~endswith(symbol, USD)
    THEN symbol \o USD
    ELSE symbol

\* Decimal(str(v)) returned as the price
converted(v) ==
    LET d == Decimal_of_str(v)
    IN  IF d.exc = "" THEN Ok(Some(d.val)) ELSE d

\* price_service.py:30-49 and 55, the body of the try block after the symbol
\* is normalized: the price, None, or the exception raised
fetch(ticker) ==
    IF ticker.ctor # "" THEN Raise(ticker.ctor)
    ELSE IF ticker.info.exc # "" THEN ticker.info
    ELSE LET info == ticker.info.val
             held == {i \in 1..Len(price_fields) :
                         /\ price_fields[i] \in DOMAIN info
                         /\ info[price_fields[i]] # PyNone}
         IN  IF held # {}
             THEN converted(info[price_fields[CHOOSE i \in held : \A j \in held : i <= j]])
             \* hasattr() is False when reading the attribute raises AttributeError
             ELSE IF ticker.fast_info.exc \notin {"", "AttributeError"} THEN ticker.fast_info
             ELSE IF ticker.fast_info.exc = "" /\ "last_price" \in DOMAIN ticker.fast_info.val
             THEN converted(ticker.fast_info.val.last_price)
             ELSE IF ticker.history.exc # "" THEN ticker.history
             ELSE IF ticker.history.val # <<>>
             THEN converted(ticker.history.val[Len(ticker.history.val)])
             ELSE Ok(None)

\* a lookup that catches ConnectionError only
get_current_price_except_connection(symbol, asset_type, yf) ==
    LET query == provider_symbol(symbol, asset_type)
        body == fetch(yf[query])
    IN  IF body.exc = "" THEN [query |-> query, exc |-> "", val |-> body.val]
        ELSE IF body.exc = "ConnectionError" THEN [query |-> query, exc |-> "", val |-> None]
        ELSE [query |-> query, exc |-> body.exc, val |-> None]

\* PriceService.get_current_price; yf maps a provider symbol to the Ticker the
\* provider answers with. query records the symbol the provider was asked for,
\* exc the exception that leaves the method ("" for none)
get_current_price(symbol, asset_type, yf) ==
    LET query == provider_symbol(symbol, asset_type)
        body == fetch(yf[query])
    IN  IF body.exc = "" THEN [query |-> query, exc |-> "", val |-> body.val]
        ELSE IF body.exc \in Exception THEN [query |-> query, exc |-> "", val |-> None]
        ELSE [query |-> query, exc |-> body.exc, val |-> None]

\* an assignment that, for an unavailable price, voids the earlier results too
setitem_cascade(results, symbol, price) ==
    [k \in DOMAIN results \cup {symbol} |->
        IF k = symbol \/ price = None THEN price ELSE results[k]]

\* results[symbol] = price
setitem(results, symbol, price) ==
    [k \in DOMAIN results \cup {symbol} |-> IF k = symbol THEN price ELSE results[k]]

\* PriceService.get_multiple_prices, the loop from entry i on
RECURSIVE get_multiple_prices_from(_, _, _, _)
get_multiple_prices_from(symbols, yf, i, results) ==
    IF i > Len(symbols)
    THEN Ok(results)
    ELSE LET price == get_current_price(symbols[i][1], symbols[i][2], yf)
         IN  IF price.exc # "" THEN Raise(price.exc)
             ELSE get_multiple_prices_from(symbols, yf, i + 1,
                                           setitem(results, symbols[i][1], price.val))

get_multiple_prices(symbols, yf) == get_multiple_prices_from(symbols, yf, 1, <<>>)

----------------------------------------------------------------------------
(* app/portfolio_service.py: valuation *)

Zero == Decimal(0, <<>>, 0)
Hundred == Decimal(0, <<1, 0, 0>>, 0)

\* Position.total_cost (app/models.py)
total_cost(position) == Decimal_mul(position.shares, position.purchase_price)

\* an entry that reports the market price as the purchase price
PositionWithMetrics_at_market(position, current_price, current_value, roi_percentage, profit_loss) ==
    [id |-> position.id,
     asset_symbol |-> position.asset_symbol,
     asset_type |-> position.asset_type,
     shares |-> position.shares,
     purchase_price |-> current_price,
     current_price |-> current_price,
     current_value |-> current_value,
     roi_percentage |-> roi_percentage,
     profit_loss |-> profit_loss,
     created_at |-> position.created_at,
     updated_at |-> position.updated_at]

PositionWithMetrics(position, current_price, current_value, roi_percentage, profit_loss) ==
    [id |-> position.id,
     asset_symbol |-> position.asset_symbol,
     asset_type |-> position.asset_type,
     shares |-> position.shares,
     purchase_price |-> position.purchase_price,
     current_price |-> current_price,
     current_value |-> current_value,
     roi_percentage |-> roi_percentage,
     profit_loss |-> profit_loss,
     created_at |-> position.created_at,
     updated_at |-> position.updated_at]

PortfolioSummary(total_positions, total_value, cost, total_roi_percentage, total_profit_loss, last_updated) ==
    [total_positions |-> total_positions,
     total_value |-> total_value,
     total_cost |-> cost,
     total_roi_percentage |-> total_roi_percentage,
     total_profit_loss |-> total_profit_loss,
     last_updated |-> last_updated]

\* a loop body that leaves the quotient unscaled
position_with_metrics_ratio(position, current_prices) ==
    LET found == IF position.asset_symbol \in DOMAIN current_prices
                 THEN current_prices[position.asset_symbol]
                 ELSE None
        current_price == IF found = None THEN Zero ELSE found[1]
        current_value == Decimal_mul(Decimal_of_text(str(position.shares)), current_price)
        cost == Decimal_mul(Decimal_of_text(str(position.shares)),
                            Decimal_of_text(str(position.purchase_price)))
        profit_loss == Decimal_sub(current_value, cost)
        roi_percentage == IF Decimal_gt0(cost)
                          THEN Decimal_truediv(profit_loss, cost)
                          ELSE Zero
    IN  PositionWithMetrics(position, current_price, current_value, roi_percentage,
                            profit_loss)

\* a loop body that substitutes the purchase price for an unavailable price
position_with_metrics_at_cost(position, current_prices) ==
    LET found == IF position.asset_symbol \in DOMAIN current_prices
                 THEN current_prices[position.asset_symbol]
                 ELSE None
        current_price == IF found = None THEN position.purchase_price ELSE found[1]
        current_value == Decimal_mul(Decimal_of_text(str(position.shares)), current_price)
        cost == Decimal_mul(Decimal_of_text(str(position.shares)),
                            Decimal_of_text(str(position.purchase_price)))
        profit_loss == Decimal_sub(current_value, cost)
        roi_percentage == IF Decimal_gt0(cost)
                          THEN Decimal_mul(Decimal_truediv(profit_loss, cost), Hundred)
                          ELSE Zero
    IN  PositionWithMetrics(position, current_price, current_value, roi_percentage,
                            profit_loss)

\* get_positions_with_metrics, the body of the loop over the positions
position_with_metrics(position, current_prices) ==
    LET found == IF position.asset_symbol \in DOMAIN current_prices
                 THEN current_prices[position.asset_symbol]
                 ELSE None
        current_price == IF found = None THEN Zero ELSE found[1]
        current_value == Decimal_mul(Decimal_of_text(str(position.shares)), current_price)
        cost == Decimal_mul(Decimal_of_text(str(position.shares)),
                            Decimal_of_text(str(position.purchase_price)))
        profit_loss == Decimal_sub(current_value, cost)
        roi_percentage == IF Decimal_gt0(cost)
                          THEN Decimal_mul(Decimal_truediv(profit_loss, cost), Hundred)
                          ELSE Zero
    IN  PositionWithMetrics(position, current_price, current_value, roi_percentage,
                            profit_loss)

\* a loop that leaves out the positions without a price
get_positions_with_metrics_skip_unavailable(listing, yf) ==
    IF listing = <<>>
    THEN Ok(<<>>)
    ELSE LET symbols == [i \in 1..Len(listing) |->
                            <<listing[i].asset_symbol, listing[i].asset_type>>]
             current_prices == get_multiple_prices(symbols, yf)
             priced == SelectSeq(listing,
                                 LAMBDA position :
                                     current_prices.val[position.asset_symbol] # None)
         IN  IF current_prices.exc # ""
             THEN Raise(current_prices.exc)
             ELSE Ok([i \in 1..Len(priced) |->
                         position_with_metrics(priced[i], current_prices.val)])

\* PortfolioService.get_positions_with_metrics on the list that
\* get_all_positions returned
get_positions_with_metrics(listing, yf) ==
    IF listing = <<>>
    THEN Ok(<<>>)
    ELSE LET symbols == [i \in 1..Len(listing) |->
                            <<listing[i].asset_symbol, listing[i].asset_type>>]
             current_prices == get_multiple_prices(symbols, yf)
         IN  IF current_prices.exc # ""
             THEN Raise(current_prices.exc)
             ELSE Ok([i \in 1..Len(listing) |->
                         position_with_metrics(listing[i], current_prices.val)])

\* sum(...) over the first n entries: 0 + v1 + ... + vn
RECURSIVE sum(_, _)
sum(values, n) == IF n = 0 THEN Zero ELSE Decimal_add(sum(values, n - 1), values[n])

\* get_portfolio_summary from the entries on; t is the reading of the clock
summarize(entries, t) ==
    IF entries = <<>>
    THEN Ok(Some(PortfolioSummary(0, Zero, Zero, Zero, Zero, t)))
    ELSE LET total_value == sum([i \in 1..Len(entries) |-> entries[i].current_value],
                                Len(entries))
             cost == sum([i \in 1..Len(entries) |->
                             Decimal_mul(Decimal_of_text(str(entries[i].shares)),
                                         Decimal_of_text(str(entries[i].purchase_price)))],
                         Len(entries))
             total_profit_loss == Decimal_sub(Decimal_of_text(str(total_value)),
                                              Decimal_of_text(str(cost)))
             total_roi_percentage ==
                 IF Decimal_gt0(cost)
                 THEN Decimal_mul(Decimal_truediv(total_profit_loss, cost), Hundred)
                 ELSE Zero
         IN  Ok(Some(PortfolioSummary(
                 Len(entries),
                 IF Decimal_is_zero(total_value) THEN Zero
                 ELSE Decimal_of_text(str(total_value)),
                 IF Decimal_is_zero(cost) THEN Zero ELSE Decimal_of_text(str(cost)),
                 total_roi_percentage,
                 IF Decimal_is_zero(total_profit_loss) THEN Zero
                 ELSE Decimal_of_text(str(total_profit_loss)),
                 t)))

\* a summary that is None for an empty portfolio
get_portfolio_summary_none_when_empty(listing, yf, t) ==
    LET positions_with_metrics == get_positions_with_metrics(listing, yf)
    IN  IF positions_with_metrics.exc # ""
        THEN Raise(positions_with_metrics.exc)
        ELSE IF positions_with_metrics.val = <<>>
        THEN Ok(None)
        ELSE summarize(positions_with_metrics.val, t)

\* PortfolioService.get_portfolio_summary
get_portfolio_summary(listing, yf, t) ==
    LET positions_with_metrics == get_positions_with_metrics(listing, yf)
    IN  IF positions_with_metrics.exc # ""
        THEN Raise(positions_with_metrics.exc)
        ELSE summarize(positions_with_metrics.val, t)

----------------------------------------------------------------------------
(* Callers' inputs *)

\* Decimal("1"), Decimal("2")
One == Decimal(0, <<1>>, 0)
Two == Decimal(0, <<2>>, 0)

\* a portfolio: positions that differ in their symbols; a request may carry an
\* invalid quantity
PortfolioSymbols == {<<"a", "b">>, <<"B">>}
PortfolioTypes == {STOCK}
PortfolioShares == {Zero, One}
PortfolioPrices == {Two}
PortfolioNewShares == {Zero}
NotSupplied == {}

\* a record: the values it is created with and the values updates change them
\* to differ in every field; quantity and price may be invalid in both
CreatedSymbols == {<<"a", "b">>}
CreatedTypes == {STOCK}
CreatedShares == {Zero, One}
CreatedPrices == {Decimal_neg(One), One}
UpdatedSymbols == {<<"b">>}
UpdatedTypes == {CRYPTOCURRENCY}
UpdatedShares == {Zero, Two}
UpdatedPrices == {Decimal_neg(One), Two}

IdInputs == 1..(MaxIds + 1)

FieldNames == {"asset_symbol", "asset_type", "shares", "purchase_price"}

Optional(S) == {None} \cup {Some(v) : v \in S}

\* the fields a PositionUpdate request supplies
Supplied(raw) == {f \in FieldNames : raw[f] # None}

\* a quantity or a purchase price is supplied and is <= 0
NonPositiveCreate(raw) == ~Decimal_gt0(raw.shares) \/ ~Decimal_gt0(raw.purchase_price)
NonPositiveUpdate(raw) ==
    \/ raw.shares # None /\ ~Decimal_gt0(raw.shares[1])
    \/ raw.purchase_price # None /\ ~Decimal_gt0(raw.purchase_price[1])

\* op: the call that produced the outcome (the schema constructor when it raised)
Outcome(op, id, val, ok, error, supplied, nonpositive) ==
    [op |-> op, id |-> id, val |-> val, ok |-> ok, error |-> error,
     supplied |-> supplied, nonpositive |-> nonpositive]

Ids(rows) == {p.id : p \in rows}

\* the frame of a valuation or price call: the method called, where it is,
\* its locals, and the order in which it read the store, asked the provider,
\* got the answers and computed
Frame(op, pc, listing, symbols, i, results, entries, exc, events) ==
    [op |-> op, pc |-> pc, listing |-> listing, symbols |-> symbols, i |-> i,
     results |-> results, entries |-> entries, exc |-> exc, events |-> events]

\* no call in progress
NoCall == Frame("", "idle", <<>>, <<>>, 0, <<>>, <<>>, "", <<>>)

\* the values of a row that a request can set, with the identifier
Fields(p) ==
    [id |-> p.id, asset_symbol |-> p.asset_symbol, asset_type |-> p.asset_type,
     shares |-> p.shares, purchase_price |-> p.purchase_price]

\* what an update request asks for: the supplied values over the earlier ones
Overlay(e, raw) ==
    [id |-> e.id,
     asset_symbol |-> IF raw.asset_symbol = None THEN e.asset_symbol
                      ELSE upper(raw.asset_symbol[1]),
     asset_type |-> IF raw.asset_type = None THEN e.asset_type ELSE raw.asset_type[1],
     shares |-> IF raw.shares = None THEN e.shares ELSE raw.shares[1],
     purchase_price |-> IF raw.purchase_price = None THEN e.purchase_price
                        ELSE raw.purchase_price[1]]

----------------------------------------------------------------------------
(* State machine *)

Init ==
    /\ positions = {}
    /\ next_id = 1
    /\ now = 0
    /\ ret = Outcome("init", NoId, None, FALSE, "", {}, FALSE)
    /\ issued = {}
    /\ deleted = {}
    /\ expected = {}
    /\ call = NoCall

\* PositionCreate(...) followed by PortfolioService.create_position; the caller
\* keeps at most `room` positions and draws the fields from the given sets
CreatePosition(room, Symbols, Types, Shares, Prices) ==
    \E sym \in Symbols, ty \in Types, sh \in Shares, pr \in Prices :
        LET raw == [asset_symbol |-> sym, asset_type |-> ty,
                    shares |-> sh, purchase_price |-> pr]
        IN  IF ~PositionCreate(raw)
            THEN /\ ret' = Outcome("PositionCreate", NoId, None, FALSE, "ValidationError",
                                   FieldNames, NonPositiveCreate(raw))
                 /\ UNCHANGED <<positions, next_id, now, issued, deleted, expected, call>>
            ELSE /\ next_id <= MaxIds
                 /\ Cardinality(positions) < room
                 /\ \E t1 \in now..MaxClock : \E t2 \in t1..MaxClock :
                      LET done == create_position(positions, raw, next_id, t1, t2)
                      IN  /\ positions' = done.rows
                          /\ next_id' = next_id + 1
                          /\ now' = t2
                          /\ ret' = Outcome("create_position", NoId, Some(done.val), FALSE, "",
                                            FieldNames, NonPositiveCreate(raw))
                          /\ issued' = issued \cup {done.val.id}
                          /\ expected' = expected \cup
                                {[id |-> done.val.id, asset_symbol |-> upper(sym),
                                  asset_type |-> ty, shares |-> sh, purchase_price |-> pr]}
                          /\ UNCHANGED <<deleted, call>>

\* PortfolioService.get_position
GetPosition ==
    \E position_id \in IdInputs :
        /\ ret' = Outcome("get_position", position_id, get_position(positions, position_id),
                          FALSE, "", {}, FALSE)
        /\ UNCHANGED <<positions, next_id, now, issued, deleted, expected, call>>

\* PortfolioService.get_all_positions
GetAllPositions ==
    /\ \E listing \in get_all_positions(positions) :
          ret' = Outcome("get_all_positions", NoId, listing, FALSE, "", {}, FALSE)
    /\ UNCHANGED <<positions, next_id, now, issued, deleted, expected, call>>

\* PositionUpdate(...) followed by PortfolioService.update_position
UpdatePosition(Symbols, Types, Shares, Prices) ==
    \E position_id \in IdInputs :
    \E sym \in Optional(Symbols), ty \in Optional(Types),
       sh \in Optional(Shares), pr \in Optional(Prices) :
        LET raw == [asset_symbol |-> sym, asset_type |-> ty,
                    shares |-> sh, purchase_price |-> pr]
        IN  IF ~PositionUpdate(raw)
            THEN /\ ret' = Outcome("PositionUpdate", position_id, None, FALSE, "ValidationError",
                                   Supplied(raw), NonPositiveUpdate(raw))
                 /\ UNCHANGED <<positions, next_id, now, issued, deleted, expected, call>>
            ELSE \E t \in now..MaxClock :
                    LET done == update_position(positions, position_id, raw, t)
                    IN  /\ positions' = done.rows
                        \* the clock is read only when the row was found
                        /\ now' = IF done.val = None THEN now ELSE t
                        /\ ret' = Outcome("update_position", position_id, done.val, FALSE, "",
                                          Supplied(raw), NonPositiveUpdate(raw))
                        /\ expected' = {IF e.id = position_id THEN Overlay(e, raw) ELSE e :
                                           e \in expected}
                        /\ UNCHANGED <<next_id, issued, deleted, call>>

\* PortfolioService.delete_position
DeletePosition ==
    \E position_id \in IdInputs :
        LET done == delete_position(positions, position_id)
        IN  /\ positions' = done.rows
            /\ ret' = Outcome("delete_position", position_id, None, done.val, "", {}, FALSE)
            /\ deleted' = IF done.val THEN deleted \cup {position_id} ELSE deleted
            /\ expected' = {e \in expected : e.id # position_id}
            /\ UNCHANGED <<next_id, now, issued, call>>

\* A portfolio of several positions that differ in their symbols
Next ==
    \/ CreatePosition(MaxIds, PortfolioSymbols, PortfolioTypes, PortfolioShares,
                      PortfolioPrices)
    \/ GetPosition
    \/ GetAllPositions
    \/ UpdatePosition(PortfolioSymbols, NotSupplied, PortfolioNewShares, NotSupplied)
    \/ DeletePosition

Spec == Init /\ [][Next]_vars

\* One position at a time, every field set and changed
NextRecord ==
    \/ CreatePosition(1, CreatedSymbols, CreatedTypes, CreatedShares, CreatedPrices)
    \/ GetPosition
    \/ GetAllPositions
    \/ UpdatePosition(UpdatedSymbols, UpdatedTypes, UpdatedShares, UpdatedPrices)
    \/ DeletePosition

SpecRecord == Init /\ [][NextRecord]_vars

\* Symbols at the length limit of PositionCreate and PositionUpdate: one that
\* str.upper() leaves alone, one that it lengthens, one that is too long
Repeat(c, n) == [i \in 1..n |-> c]
LimitSymbols ==
    {Repeat("a", max_length), Repeat("sz", max_length), Repeat("a", max_length + 1)}
LimitShares == {One}

NextSymbol ==
    \/ CreatePosition(MaxIds, LimitSymbols, PortfolioTypes, LimitShares, PortfolioPrices)
    \/ GetPosition
    \/ GetAllPositions
    \/ UpdatePosition(LimitSymbols, NotSupplied, NotSupplied, NotSupplied)
    \/ DeletePosition

SpecSymbol == Init /\ [][NextSymbol]_vars

----------------------------------------------------------------------------
(* Price lookups *)

MaxBatch == 2

\* prices the provider quotes: 0.0, 2.0, 3.0 and 4.5
Quote0 == Decimal(0, <<>>, -1)
Quote2 == Decimal(0, <<2, 0>>, -1)
Quote3 == Decimal(0, <<3, 0>>, -1)
Quote45 == Decimal(0, <<4, 5>>, -1)

NoData == Ok(<<>>)

\* a ticker the provider has nothing for
Unlisted == Ticker("", NoData, NoData, NoData)

\* a ticker with a market price
Quoted(price) == Ticker("", Ok([regularMarketPrice |-> PyFloat(price)]), NoData, NoData)

\* a ticker whose lookup fails
Failing == Ticker("", Raise("ConnectionError"), NoData, NoData)

\* one ticker for every step of the lookup: which source has the price, and
\* which step raises
TickerResponses ==
    { Unlisted,
      Quoted(Quote2),
      Quoted(Quote0),
      Failing,
      Ticker("ConnectionError", NoData, NoData, NoData),
      Ticker("", Ok([regularMarketPrice |-> PyNone, currentPrice |-> PyFloat(Quote3),
                     price |-> PyFloat(Quote2)]), NoData, NoData),
      Ticker("", Ok([price |-> PyStr("N/A")]), Ok([last_price |-> PyFloat(Quote2)]), NoData),
      Ticker("", NoData, Ok([last_price |-> PyFloat(Quote3)]), Ok(<<PyFloat(Quote2)>>)),
      Ticker("", NoData, Ok([last_price |-> PyNone]), Ok(<<PyFloat(Quote2)>>)),
      Ticker("", NoData, Raise("AttributeError"), Ok(<<PyFloat(Quote2), PyFloat(Quote45)>>)),
      Ticker("", NoData, Raise("KeyError"), Ok(<<PyFloat(Quote2)>>)),
      Ticker("", NoData, Ok([day_high |-> PyFloat(Quote45)]), Raise("ConnectionError")) }

BatchResponses == {Unlisted, Quoted(Quote2), Failing}

PriceSymbols == {<<"B">>, <<"B">> \o USD}
BatchSymbols == {<<"A">>, <<"B">>}

\* the (symbol, asset type) pairs of a batch; B is held as a stock and as a
\* cryptocurrency
BatchEntries == {<<<<"A">>, STOCK>>, <<<<"B">>, STOCK>>, <<<<"B">>, CRYPTOCURRENCY>>}

\* the symbols the provider can be asked for
ProviderSymbols(Symbols) == Symbols \cup {symbol \o USD : symbol \in Symbols}

\* the provider lists one symbol and nothing else
Listing(Symbols, listed, ticker) ==
    [q \in ProviderSymbols(Symbols) |-> IF q = listed THEN ticker ELSE Unlisted]

\* lists of at most n of the given (symbol, asset type) pairs
Batches(Entries, n) == UNION {[1..k -> Entries] : k \in 0..n}

\* what the provider answers for the symbols a batch asks for (nothing for
\* any other symbol)
Markets(Symbols, Entries, Responses) ==
    LET asked == {provider_symbol(e[1], e[2]) : e \in Entries}
    IN  {[q \in ProviderSymbols(Symbols) |-> IF q \in asked THEN w[q] ELSE Unlisted] :
            w \in [asked -> Responses]}

\* PriceService.get_current_price
GetCurrentPrice ==
    \E symbol \in PriceSymbols, asset_type \in AssetType :
    \E listed \in ProviderSymbols(PriceSymbols), ticker \in TickerResponses :
        LET yf == Listing(PriceSymbols, listed, ticker)
            done == get_current_price(symbol, asset_type, yf)
        IN  /\ ret' = Outcome("get_current_price", NoId,
                              [symbol |-> symbol, asset_type |-> asset_type, yf |-> yf,
                               query |-> done.query, price |-> done.val],
                              FALSE, done.exc, {}, FALSE)
            /\ UNCHANGED <<positions, next_id, now, issued, deleted, expected, call>>

\* PriceService.get_multiple_prices
GetMultiplePrices ==
    \E symbols \in Batches(BatchEntries, MaxBatch) :
    \E yf \in Markets(BatchSymbols, BatchEntries, BatchResponses) :
        LET done == get_multiple_prices(symbols, yf)
        IN  /\ ret' = Outcome("get_multiple_prices", NoId,
                              [symbols |-> symbols, yf |-> yf, prices |-> done.val],
                              FALSE, done.exc, {}, FALSE)
            /\ UNCHANGED <<positions, next_id, now, issued, deleted, expected, call>>

NextPrice ==
    \/ GetCurrentPrice
    \/ GetMultiplePrices

SpecPrice == Init /\ [][NextPrice]_vars

----------------------------------------------------------------------------
(* Valuation of a portfolio *)

\* the largest quantity and the largest purchase price the schemas admit:
\* 999999999999.99999999 and 999999999999999999.99
BigShares == Decimal(0, Repeat(9, max_digits), -shares_places)
BigPrice == Decimal(0, Repeat(9, max_digits), -price_places)
Three == Decimal(0, <<3>>, 0)
\* a purchase price of 11111111.11
Ones == Decimal(0, Repeat(1, 10), -price_places)

\* one asset, held as a stock and as a cryptocurrency
HeldSymbols == {<<"B">>}
HeldShares == {BigShares}
HeldPrices == {Three, Ones, BigPrice}

\* what the provider answers for B and for B-USD
Market(stock, crypto) ==
    [q \in ProviderSymbols(HeldSymbols) |->
        IF q = <<"B">> THEN stock ELSE IF q = <<"B">> \o USD THEN crypto ELSE Unlisted]

HeldMarkets ==
    { Market(Unlisted, Unlisted),
      Market(Quoted(Quote2), Quoted(Quote45)),
      Market(Quoted(Quote3), Failing),
      Market(Quoted(Quote45), Quoted(Quote3)) }

\* the clock has reached its last reading
InitValuation ==
    /\ positions = {}
    /\ next_id = 1
    /\ now = MaxClock
    /\ ret = Outcome("init", NoId, None, FALSE, "", {}, FALSE)
    /\ issued = {}
    /\ deleted = {}
    /\ expected = {}
    /\ call = NoCall

\* PortfolioService.get_positions_with_metrics
GetPositionsWithMetrics ==
    \E listing \in get_all_positions(positions), yf \in HeldMarkets :
    \E done \in {get_positions_with_metrics(listing, yf)} :
        /\ ret' = Outcome("get_positions_with_metrics", NoId,
                          [listing |-> listing, yf |-> yf, entries |-> done.val],
                          FALSE, done.exc, {}, FALSE)
        /\ UNCHANGED <<positions, next_id, now, issued, deleted, expected, call>>

\* PortfolioService.get_portfolio_summary
GetPortfolioSummary ==
    \E listing \in get_all_positions(positions), yf \in HeldMarkets :
    \E t \in now..MaxClock :
    \E done \in {get_portfolio_summary(listing, yf, t)} :
        /\ ret' = Outcome("get_portfolio_summary", NoId,
                          [listing |-> listing, yf |-> yf, summary |-> done.val],
                          FALSE, done.exc, {}, FALSE)
        /\ now' = IF done.exc = "" THEN t ELSE now
        /\ UNCHANGED <<positions, next_id, issued, deleted, expected, call>>

NextValuation ==
    \/ CreatePosition(MaxIds, HeldSymbols, AssetType, HeldShares, HeldPrices)
    \/ DeletePosition
    \/ GetPositionsWithMetrics
    \/ GetPortfolioSummary

SpecValuation == InitValuation /\ [][NextValuation]_vars

----------------------------------------------------------------------------
(* The valuation and price calls, step by step *)

\* a lookup that hangs until the provider's own timeout ends it
TimedOut == Ticker("", Raise("TimeoutError"), NoData, NoData)

\* what the provider answers when it is asked
StepResponses == {Quoted(Quote2), Unlisted, TimedOut}

\* the asset held, as a stock and as a cryptocurrency
StepEntries == {<<<<"B">>, STOCK>>, <<<<"B">>, CRYPTOCURRENCY>>}
StepShares == {One}
StepPrices == {Two}

PriceCalls == {"get_current_price", "get_multiple_prices"}
ValuationCalls == {"get_positions_with_metrics", "get_portfolio_summary"}

\* where a call goes on once the price of pair i - 1 is in: the next pair of
\* the batch, the figures, or the return of the price method
after_lookup(op, symbols, i) ==
    IF i <= Len(symbols) THEN "lookup"
    ELSE IF op \in PriceCalls THEN "return"
    ELSE "compute"

\* a caller invokes one of the four methods; no other call is in progress
StartCall ==
    /\ call.pc = "idle"
    /\ \E op \in PriceCalls \cup ValuationCalls :
       \E symbols \in (IF op = "get_current_price" THEN [1..1 -> StepEntries]
                       ELSE IF op = "get_multiple_prices"
                       THEN Batches(StepEntries, MaxBatch)
                       ELSE {<<>>}) :
          call' = Frame(op,
                        IF op \in ValuationCalls THEN "read"
                        ELSE after_lookup(op, symbols, 1),
                        <<>>, symbols, 1, <<>>, <<>>, "", <<>>)
    /\ ret' = Outcome("call", NoId, None, FALSE, "", {}, FALSE)
    /\ UNCHANGED <<positions, next_id, now, issued, deleted, expected>>

\* a read that removes the rows it has listed
ReadStore_consuming ==
    /\ call.pc = "read"
    /\ \E listing \in get_all_positions(positions) :
          call' = [call EXCEPT
                     !.listing = listing,
                     !.symbols = [i \in 1..Len(listing) |->
                                     <<listing[i].asset_symbol, listing[i].asset_type>>],
                     !.pc = IF listing = <<>> THEN "return" ELSE "lookup",
                     !.events = Append(@, [event |-> "read"])]
    /\ positions' = {}
    /\ UNCHANGED <<next_id, now, ret, issued, deleted, expected>>

\* get_positions_with_metrics reads the store and lists the (symbol, asset
\* type) pair of every position
ReadStore ==
    /\ call.pc = "read"
    /\ \E listing \in get_all_positions(positions) :
          call' = [call EXCEPT
                     !.listing = listing,
                     !.symbols = [i \in 1..Len(listing) |->
                                     <<listing[i].asset_symbol, listing[i].asset_type>>],
                     !.pc = IF listing = <<>> THEN "return" ELSE "lookup",
                     !.events = Append(@, [event |-> "read"])]
    /\ UNCHANGED <<positions, next_id, now, ret, issued, deleted, expected>>

\* get_multiple_prices calls get_current_price for pair i of the list, which
\* asks the provider
Ask ==
    /\ call.pc = "lookup"
    /\ call' = [call EXCEPT
                  !.pc = "waiting",
                  !.events = Append(@, [event |-> "ask",
                                        symbol |-> provider_symbol(call.symbols[call.i][1],
                                                                   call.symbols[call.i][2])])]
    /\ UNCHANGED <<positions, next_id, now, ret, issued, deleted, expected>>

\* a provider whose answer never arrives
Answer_lost ==
    /\ call.pc = "waiting"
    /\ UNCHANGED vars

\* the provider answers (a lookup that hangs ends with the provider's
\* timeout); get_current_price returns and the loop stores the price
Answer ==
    /\ call.pc = "waiting"
    /\ \E ticker \in StepResponses :
          LET symbol == call.symbols[call.i][1]
              asset_type == call.symbols[call.i][2]
              query == provider_symbol(symbol, asset_type)
          IN  \E price \in {get_current_price(symbol, asset_type,
                                              [q \in {query} |-> ticker])} :
                 call' = [call EXCEPT
                            !.results = IF price.exc = ""
                                        THEN setitem(@, symbol, price.val) ELSE @,
                            !.i = @ + 1,
                            !.exc = price.exc,
                            !.pc = IF price.exc = ""
                                   THEN after_lookup(call.op, call.symbols, call.i + 1)
                                   ELSE "return",
                            !.events = Append(@, [event |-> "answer", symbol |-> query,
                                                  ticker |-> ticker])]
    /\ UNCHANGED <<positions, next_id, now, ret, issued, deleted, expected>>

\* get_positions_with_metrics computes the figures of every position
Compute ==
    /\ call.pc = "compute"
    /\ call' = [call EXCEPT
                  !.entries = [i \in 1..Len(call.listing) |->
                                  position_with_metrics(call.listing[i], call.results)],
                  !.pc = "return",
                  !.events = Append(@, [event |-> "compute"])]
    /\ UNCHANGED <<positions, next_id, now, ret, issued, deleted, expected>>

\* the method returns (get_portfolio_summary after it has summed the entries
\* and read the clock)
Return ==
    /\ call.pc = "return"
    /\ \E t \in now..MaxClock :
          /\ now' = IF call.op = "get_portfolio_summary" /\ call.exc = "" THEN t ELSE now
          /\ ret' = Outcome(call.op, NoId,
                            IF call.exc # "" THEN None
                            ELSE IF call.op = "get_current_price"
                            THEN Some([symbols |-> call.symbols,
                                       price |-> call.results[call.symbols[1][1]]])
                            ELSE IF call.op = "get_multiple_prices"
                            THEN Some([symbols |-> call.symbols, prices |-> call.results])
                            ELSE IF call.op = "get_positions_with_metrics"
                            THEN Some([listing |-> call.listing, entries |-> call.entries])
                            ELSE Some([listing |-> call.listing,
                                       summary |-> summarize(call.entries, t).val]),
                            FALSE, call.exc, {}, FALSE)
    /\ call' = NoCall
    /\ UNCHANGED <<positions, next_id, issued, deleted, expected>>

\* a step of the call in progress
Step == ReadStore \/ Ask \/ Answer \/ Compute \/ Return

\* single-threaded: the store methods run between the calls
NextSteps ==
    \/ call.pc = "idle" /\ CreatePosition(MaxIds, {<<"B">>}, AssetType, StepShares, StepPrices)
    \/ call.pc = "idle" /\ GetPosition
    \/ call.pc = "idle" /\ GetAllPositions
    \/ StartCall
    \/ ReadStore
    \/ Ask
    \/ Answer
    \/ Compute
    \/ Return

SpecSteps == InitValuation /\ [][NextSteps]_vars

\* every step of a call is taken in the end: the interpreter runs, and the
\* provider answers within its timeout
SpecStepsFair == SpecSteps /\ WF_vars(Step)

----------------------------------------------------------------------------
(* Properties *)

Returned == ret.val[1]

\* C1: every stored position has a quantity strictly greater than 0 and a
\* purchase price strictly greater than 0, whatever create, update and delete
\* requests were made.
C1_PositiveQuantityAndPrice ==
    \A p \in positions : Decimal_gt0(p.shares) /\ Decimal_gt0(p.purchase_price)

\* a position whose quantity and price were both replaced by an update
C1_Witness ==
    /\ ret.op = "update_position"
    /\ ret.val # None
    /\ {"shares", "purchase_price"} \subseteq ret.supplied
    /\ Returned \in positions

\* C2: a create or update request that supplies a quantity or a purchase price
\* <= 0 fails with a validation error at the request boundary, and the table
\* is the same after it as before it, also when the request supplies other,
\* valid fields.
C2_RejectedRequestNeverApplied ==
    [][ret'.nonpositive =>
          /\ ret'.error = "ValidationError"
          /\ ret'.op \in {"PositionCreate", "PositionUpdate"}
          /\ ret'.val = None
          /\ positions' = positions]_vars

\* an update of an existing position refused for its quantity while it also
\* supplies a symbol and an asset type
C2_Witness ==
    /\ ret.nonpositive
    /\ ret.op = "PositionUpdate"
    /\ ret.id \in Ids(positions)
    /\ {"asset_symbol", "asset_type", "shares"} \subseteq ret.supplied
    /\ "purchase_price" \notin ret.supplied

\* C3: an update of an existing position gives exactly the supplied fields
\* their supplied values (the symbol upper-cased), keeps the previous value of
\* every field that is not supplied, and changes neither the identifier nor
\* the creation timestamp.
C3_UpdateAppliesExactlySuppliedFields ==
    [][(ret'.op = "update_position" /\ ret'.id \in Ids(positions)) =>
          \A old \in {p \in positions : p.id = ret'.id} :
             /\ ret'.val # None
             /\ ret'.val[1] \in positions'
             /\ ret'.val[1].id = old.id
             /\ ret'.val[1].created_at = old.created_at
             /\ \A f \in FieldNames \ ret'.supplied : ret'.val[1][f] = old[f]
             /\ Fields(ret'.val[1]) \in expected'
             /\ \A p \in positions' : p.id = old.id => p = ret'.val[1]]_vars

\* an update that supplied the quantity alone, on a position whose symbol,
\* asset type and price had been changed before
C3_Witness ==
    /\ ret.op = "update_position"
    /\ ret.val # None
    /\ ret.supplied = {"shares"}
    /\ Returned.shares = Two
    /\ Returned.asset_type = CRYPTOCURRENCY
    /\ Returned.asset_symbol = <<"B">>
    /\ Returned.purchase_price = Two

\* C4: for an identifier that is not in the table, get_position and
\* update_position return None and delete_position returns False; none of
\* them raises and the table is unchanged.
C4_AbsentIdentifier ==
    [][(/\ ret'.op \in {"get_position", "update_position", "delete_position"}
        /\ ret'.id \notin Ids(positions)) =>
          /\ ret'.val = None
          /\ ret'.ok = FALSE
          /\ ret'.error = ""
          /\ positions' = positions]_vars

\* an update of an identifier that was never issued, with positions stored
C4_Witness ==
    /\ ret.op = "update_position"
    /\ ret.val = None
    /\ ret.id \notin issued
    /\ "asset_symbol" \in ret.supplied
    /\ Cardinality(positions) = 2

\* C5: delete_position on an existing position returns True and removes
\* exactly that position; afterwards get_position on the deleted identifier
\* returns None and another delete_position on it returns False.
C5_DeleteRemovesForGood ==
    [][/\ (ret'.op = "delete_position" /\ ret'.id \in Ids(positions)) =>
             /\ ret'.ok
             /\ positions' = {p \in positions : p.id # ret'.id}
       /\ (ret'.op = "get_position" /\ ret'.id \in deleted) => ret'.val = None
       /\ (ret'.op = "delete_position" /\ ret'.id \in deleted) => ~ret'.ok]_vars

\* a second delete of a deleted identifier while another position is stored
C5_Witness ==
    /\ ret.op = "delete_position"
    /\ ~ret.ok
    /\ ret.id \in deleted
    /\ positions # {}

\* C6: no two stored positions share an identifier, an update leaves the
\* identifier of its position as it is, and create_position never returns an
\* identifier that was issued before, deleted or not.
C6_IdentifierUniqueAndPermanent ==
    [][/\ \A p, q \in positions' : p.id = q.id => p = q
       /\ ret'.op = "create_position" =>
             /\ ret'.val # None
             /\ ret'.val[1].id # NoId
             /\ ret'.val[1].id \notin issued
             /\ ret'.val[1] \in positions'
       /\ (ret'.op = "update_position" /\ ret'.val # None) =>
             /\ ret'.val[1].id = ret'.id
             /\ Ids(positions') = Ids(positions)]_vars

\* a position created after an earlier one was deleted
C6_Witness ==
    /\ ret.op = "create_position"
    /\ ret.val # None
    /\ deleted # {}
    /\ Returned \in positions

\* C7: get_all_positions returns exactly the positions created and not
\* deleted, each once, with the values of its creation overlaid by its
\* updates; get_position returns that same record; the list is empty when
\* there are none.
C7_ListingMatchesHistory ==
    LET listed == {Fields(ret.val[i]) : i \in 1..Len(ret.val)}
    IN  /\ ret.op = "get_all_positions" =>
              /\ Len(ret.val) = Cardinality(expected)
              /\ listed = expected
              /\ \A i \in 1..Len(ret.val) : get_position(positions, ret.val[i].id) = Some(ret.val[i])
        /\ ret.op = "get_position" =>
              listed = {e \in expected : e.id = ret.id}

\* the listing of the one position left after another was deleted
C7_Witness ==
    /\ ret.op = "get_all_positions"
    /\ Len(ret.val) = 1
    /\ deleted # {}
    /\ Cardinality(issued) = 2

\* C8: the symbol of every stored position equals its own upper-cased form,
\* whatever case was supplied to create_position or update_position.
C8_SymbolUpperCased ==
    \A p \in positions : upper(p.asset_symbol) = p.asset_symbol

\* an update that supplied the symbol in lower case
C8_Witness ==
    /\ ret.op = "update_position"
    /\ ret.val # None
    /\ "asset_symbol" \in ret.supplied
    /\ Returned.asset_symbol = <<"B">>
    /\ Returned \in positions

\* C9: every successful update_position sets last-modified strictly later
\* than the value it had before the update.
C9_UpdateStrictlyLater ==
    [][(ret'.op = "update_position" /\ ret'.val # None) =>
          \A old \in {p \in positions : p.id = ret'.id} :
             ret'.val[1].updated_at > old.updated_at]_vars

\* C10: every stored position has last-modified >= created.
C10_ModifiedNotBeforeCreated ==
    \A p \in positions : p.updated_at >= p.created_at

\* a position created across a clock tick and updated afterwards
C10_Witness ==
    /\ ret.op = "update_position"
    /\ ret.val # None
    /\ Returned \in positions
    /\ Returned.updated_at > Returned.created_at

\* C11: in every reachable state the symbol of every stored position has at
\* most max_length (20) characters. The requests are validated before the
\* service upper-cases the symbol, and str.upper() can lengthen it.
C11_StoredSymbolWithinMaxLength ==
    \A p \in positions : Len(p.asset_symbol) <= max_length

\* the prices that the batch lookup of get_positions_with_metrics resolves
\* for the rows of a listing, by asset symbol
resolved(listing, yf) ==
    get_multiple_prices([i \in 1..Len(listing) |->
                            <<listing[i].asset_symbol, listing[i].asset_type>>], yf).val

\* the last call was get_positions_with_metrics and it returned
Valued == ret.op = "get_positions_with_metrics" /\ ret.error = ""

\* the exact difference of two amounts
exact_sub(x, y) == exact_add(x, Decimal_neg(y))

\* C12: for every stored position p whose price resolves to c, the entry that
\* get_positions_with_metrics returns has current_price = c, current_value =
\* shares * c and profit_loss = current_value - shares * purchase_price, and
\* Position.total_cost is shares * purchase_price, all as exact products and
\* differences. Decimal arithmetic rounds to 28 significant digits, and the
\* schemas admit two factors of 20 digits each.
C12_MetricsAreExact ==
    Valued =>
        \A i \in 1..Len(ret.val.listing) :
            LET p == ret.val.listing[i]
                e == ret.val.entries[i]
                c == resolved(ret.val.listing, ret.val.yf)[p.asset_symbol]
                cost == exact_mul(p.shares, p.purchase_price)
            IN  c # None =>
                    /\ e.id = p.id
                    /\ Decimal_eq(total_cost(p), cost)
                    /\ e.current_price = c[1]
                    /\ Decimal_eq(e.current_value, exact_mul(p.shares, c[1]))
                    /\ Decimal_eq(e.profit_loss, exact_sub(e.current_value, cost))

\* C13: get_positions_with_metrics never fails, whatever the provider does;
\* it returns one entry per stored position, with the identifiers of the
\* stored positions and no other (the empty list for an empty store), and an
\* entry whose price is unavailable has the current price 0.
C13_UnavailablePriceIsZero ==
    ret.op = "get_positions_with_metrics" =>
        /\ ret.error = ""
        /\ Len(ret.val.entries) = Cardinality(positions)
        /\ {ret.val.entries[i].id : i \in 1..Len(ret.val.entries)} = Ids(positions)
        /\ \A i \in 1..Len(ret.val.entries) :
              /\ ret.val.entries[i].id = ret.val.listing[i].id
              /\ resolved(ret.val.listing, ret.val.yf)[ret.val.listing[i].asset_symbol] = None
                    => ret.val.entries[i].current_price = Zero
        /\ positions = {} => ret.val.entries = <<>>

\* two positions valued while the provider fails for the symbol: both entries
\* are there, at the price 0
C13_Witness ==
    /\ Valued
    /\ Cardinality(positions) = 2
    /\ Len(ret.val.entries) = 2
    /\ ret.val.yf[<<"B">> \o USD] = Failing
    /\ \A i \in 1..2 :
          /\ resolved(ret.val.listing, ret.val.yf)[ret.val.listing[i].asset_symbol] = None
          /\ ret.val.entries[i].current_price = Zero

\* -1, 0 or 1
sign_of(x) == IF Decimal_is_zero(x) THEN 0 ELSE IF x.sign = 1 THEN -1 ELSE 1

Decimal_abs(x) == Decimal(0, x.digits, x.exp)

\* C14 as stated: the ROI percentage of every entry is 0 when the total cost
\* of its position is 0 and otherwise is profit_loss / total_cost * 100 as an
\* exact quotient (roi * cost = 100 * profit_loss), and its sign is the sign
\* of current price - purchase price.
C14_RoiIsExactQuotient ==
    Valued =>
        \A i \in 1..Len(ret.val.entries) :
            LET p == ret.val.listing[i]
                e == ret.val.entries[i]
                cost == total_cost(p)
            IN  /\ Decimal_is_zero(cost) => Decimal_is_zero(e.roi_percentage)
                /\ ~Decimal_is_zero(cost) =>
                      Decimal_eq(exact_mul(e.roi_percentage, cost),
                                 exact_mul(Hundred, e.profit_loss))
                /\ sign_of(e.roi_percentage)
                      = sign_of(exact_sub(e.current_price, p.purchase_price))

\* C14, amended: the ROI percentage of every entry is profit_loss /
\* total_cost * 100 rounded to prec (28) significant digits: it has at most 28
\* digits and differs from the quotient by at most half a unit of its last
\* place (2 * |roi * cost - 100 * profit_loss| <= |cost| * 10^exponent). Its
\* sign is the sign of current price - purchase price, and the same entry
\* computed for a quantity of 0, whose total cost is 0, has the ROI 0.
C14_RoiIsRoundedQuotient ==
    Valued =>
        \A i \in 1..Len(ret.val.entries) :
            LET p == ret.val.listing[i]
                e == ret.val.entries[i]
                cost == total_cost(p)
                error == exact_sub(exact_mul(e.roi_percentage, cost),
                                   exact_mul(Hundred, e.profit_loss))
                unit == Decimal(0, <<1>>, e.roi_percentage.exp)
                free == position_with_metrics([p EXCEPT !.shares = Zero],
                                              resolved(ret.val.listing, ret.val.yf))
            IN  /\ Decimal_is_zero(cost) => Decimal_is_zero(e.roi_percentage)
                /\ Len(e.roi_percentage.digits) <= prec
                /\ ~Decimal_lt(exact_mul(Decimal_abs(cost), unit),
                               exact_mul(Decimal(0, <<2>>, 0), Decimal_abs(error)))
                /\ sign_of(e.roi_percentage)
                      = sign_of(exact_sub(e.current_price, p.purchase_price))
                /\ Decimal_is_zero(free.profit_loss) /\ free.roi_percentage = Zero

\* a loss whose ratio to the cost has no finite decimal expansion, next to a gain
C14_Witness ==
    /\ Valued
    /\ \E i \in 1..Len(ret.val.entries) :
          LET e == ret.val.entries[i]
              cost == total_cost(ret.val.listing[i])
          IN  /\ Decimal_lt0(e.profit_loss)
              /\ Decimal_lt0(e.roi_percentage)
              /\ Len(e.roi_percentage.digits) = prec
              /\ ~Decimal_eq(exact_mul(e.roi_percentage, cost),
                             exact_mul(Hundred, e.profit_loss))

\* the last call was get_portfolio_summary and it returned
Summed == ret.op = "get_portfolio_summary" /\ ret.error = ""

\* the exact sum of the first n amounts
RECURSIVE exact_sum(_, _)
exact_sum(values, n) ==
    IF n = 0 THEN Zero ELSE exact_add(exact_sum(values, n - 1), values[n])

\* x is the quotient a / b * 100 rounded to prec significant digits
rounded_percentage(x, a, b) ==
    /\ Len(x.digits) <= prec
    /\ ~Decimal_lt(exact_mul(Decimal_abs(b), Decimal(0, <<1>>, x.exp)),
                   exact_mul(Decimal(0, <<2>>, 0),
                             Decimal_abs(exact_sub(exact_mul(x, b), exact_mul(Hundred, a)))))

\* C15: the summary counts the stored positions; its total_value is the sum
\* of the entries' current values, its total_cost the sum of the positions'
\* total costs, its total_profit_loss their difference (exact sums and
\* difference), and its total_roi_percentage is total_profit_loss /
\* total_cost * 100 to 28 digits, or 0 when the total cost is 0. The sums are
\* Decimal sums, rounded to 28 significant digits.
C15_SummaryAggregates ==
    Summed =>
        LET listing == ret.val.listing
            entries == get_positions_with_metrics(listing, ret.val.yf).val
            summary == ret.val.summary[1]
            n == Len(listing)
        IN  /\ summary.total_positions = Cardinality(positions)
            /\ Decimal_eq(summary.total_value,
                          exact_sum([i \in 1..n |-> entries[i].current_value], n))
            /\ Decimal_eq(summary.total_cost,
                          exact_sum([i \in 1..n |-> total_cost(listing[i])], n))
            /\ Decimal_eq(summary.total_profit_loss,
                          exact_sub(summary.total_value, summary.total_cost))
            /\ IF Decimal_is_zero(summary.total_cost)
               THEN Decimal_is_zero(summary.total_roi_percentage)
               ELSE rounded_percentage(summary.total_roi_percentage,
                                       summary.total_profit_loss, summary.total_cost)

\* C16: on an empty store get_portfolio_summary does not fail and returns a
\* summary, not None, whose count is 0, whose total value, total cost,
\* profit/loss and ROI are Decimal("0"), and whose timestamp is a reading of
\* the clock.
C16_EmptySummaryIsAllZero ==
    (ret.op = "get_portfolio_summary" /\ positions = {}) =>
        /\ ret.error = ""
        /\ ret.val.summary # None
        /\ LET summary == ret.val.summary[1]
           IN  /\ summary.total_positions = 0
               /\ summary.total_value = Zero
               /\ summary.total_cost = Zero
               /\ summary.total_profit_loss = Zero
               /\ summary.total_roi_percentage = Zero
               /\ summary.last_updated \in 0..MaxClock
               /\ summary.last_updated = now

\* a summary asked for after the only position was deleted, the provider failing
C16_Witness ==
    /\ Summed
    /\ positions = {}
    /\ deleted # {}
    /\ ret.val.yf[<<"B">> \o USD] = Failing
    /\ ret.val.summary # None
    /\ ret.val.summary[1].total_positions = 0

\* C17: two calls of get_portfolio_summary in a row, over the same stored
\* positions and whatever the provider answers in each, both return, with the
\* same total_cost and the same total_positions.
C17_CostIndependentOfProvider ==
    [][(ret.op = "get_portfolio_summary" /\ ret'.op = "get_portfolio_summary") =>
          /\ positions' = positions
          /\ ret.error = "" /\ ret'.error = ""
          /\ ret.val.summary # None /\ ret'.val.summary # None
          /\ ret'.val.summary[1].total_cost = ret.val.summary[1].total_cost
          /\ ret'.val.summary[1].total_positions = ret.val.summary[1].total_positions]_vars

\* two positions summed while the provider has no price for either: the
\* value is 0 and the cost is not
C17_Witness ==
    /\ Summed
    /\ Cardinality(positions) = 2
    /\ ret.val.yf = Market(Unlisted, Unlisted)
    /\ ret.val.summary[1].total_positions = 2
    /\ Decimal_is_zero(ret.val.summary[1].total_value)
    /\ Decimal_gt0(ret.val.summary[1].total_cost)

\* positions that hold the symbols of a batch, one share each
held(symbols, t) ==
    [i \in 1..Len(symbols) |->
        Position(symbols[i][1], symbols[i][2], One, One, t, t)]

\* C18: no exception leaves get_current_price or get_multiple_prices, and
\* none leaves get_positions_with_metrics or get_portfolio_summary for
\* positions that hold the symbols of the batch; a lookup in which a step
\* raises (the ticker, info, fast_info, history, or the conversion of the
\* value) gives None for its symbol.
C18_ProviderFailuresContained ==
    /\ ret.op = "get_current_price" =>
          /\ ret.error = ""
          /\ fetch(ret.val.yf[ret.val.query]).exc # "" => ret.val.price = None
    /\ ret.op = "get_multiple_prices" =>
          /\ ret.error = ""
          /\ get_positions_with_metrics(held(ret.val.symbols, now), ret.val.yf).exc = ""
          /\ get_portfolio_summary(held(ret.val.symbols, now), ret.val.yf, now).exc = ""
          /\ \A i \in 1..Len(ret.val.symbols) :
                LET symbol == ret.val.symbols[i][1]
                    query == provider_symbol(symbol, ret.val.symbols[i][2])
                IN  (/\ \A j \in (i + 1)..Len(ret.val.symbols) :
                           ret.val.symbols[j][1] # symbol
                     /\ fetch(ret.val.yf[query]).exc # "")
                        => ret.val.prices[symbol] = None

\* a lookup whose value cannot be converted, and that falls through no further
C18_Witness ==
    /\ ret.op = "get_current_price"
    /\ ret.error = ""
    /\ fetch(ret.val.yf[ret.val.query]).exc = "InvalidOperation"
    /\ ret.val.price = None

\* the provider answering r for every symbol but one
elsewhere(yf, query, r) == [q \in DOMAIN yf |-> IF q = query THEN yf[q] ELSE r]

\* C19: get_multiple_prices never raises; its result has exactly the symbols
\* of the input as keys (none for the empty list), and the entry of a symbol
\* is what get_current_price gives for the last pair with that symbol,
\* whatever the provider answers for every other symbol.
C19_BatchResolvesEachSymbolAlone ==
    ret.op = "get_multiple_prices" =>
        /\ ret.error = ""
        /\ DOMAIN ret.val.prices = {ret.val.symbols[i][1] : i \in 1..Len(ret.val.symbols)}
        /\ ret.val.symbols = <<>> => ret.val.prices = <<>>
        /\ \A i \in 1..Len(ret.val.symbols) :
              LET symbol == ret.val.symbols[i][1]
                  asset_type == ret.val.symbols[i][2]
                  query == provider_symbol(symbol, asset_type)
              IN  (\A j \in (i + 1)..Len(ret.val.symbols) : ret.val.symbols[j][1] # symbol)
                     => \A r \in BatchResponses :
                           ret.val.prices[symbol] =
                              get_current_price(symbol, asset_type,
                                                elsewhere(ret.val.yf, query, r)).val

\* a batch of two symbols: the lookup of the first fails, the second has a price
C19_Witness ==
    /\ ret.op = "get_multiple_prices"
    /\ ret.error = ""
    /\ ret.val.symbols = <<<<<<"A">>, STOCK>>, <<<<"B">>, STOCK>>>>
    /\ ret.val.yf[<<"A">>] = Failing
    /\ ret.val.prices[<<"A">>] = None
    /\ ret.val.prices[<<"B">>] = Some(Quote2)

\* C20: for a cryptocurrency get_current_price asks the provider for the
\* symbol with "-USD" appended when the symbol does not end with it and for
\* the symbol itself when it does, so the symbol asked for is a fixed point
\* and a lookup of it gives the same query and the same price; for a stock
\* it asks for the symbol as given.
C20_CryptoSuffixIdempotent ==
    ret.op = "get_current_price" =>
        LET symbol == ret.val.symbol
            suffixed == /\ Len(symbol) >= 4
                        /\ SubSeq(symbol, Len(symbol) - 3, Len(symbol)) = <<"-", "U", "S", "D">>
            again == get_current_price(ret.val.query, ret.val.asset_type, ret.val.yf)
        IN  /\ ret.val.asset_type = STOCK => ret.val.query = symbol
            /\ (ret.val.asset_type = CRYPTOCURRENCY /\ suffixed) => ret.val.query = symbol
            /\ (ret.val.asset_type = CRYPTOCURRENCY /\ ~suffixed)
                  => ret.val.query = symbol \o <<"-", "U", "S", "D">>
            /\ again.query = ret.val.query
            /\ again.val = ret.val.price

\* the bare ticker B looked up as a cryptocurrency: the provider is asked
\* for B-USD and its price is returned
C20_Witness ==
    /\ ret.op = "get_current_price"
    /\ ret.val.asset_type = CRYPTOCURRENCY
    /\ ret.val.symbol = <<"B">>
    /\ ret.val.query = <<"B", "-", "U", "S", "D">>
    /\ ret.val.yf[ret.val.query] = Quoted(Quote2)
    /\ ret.val.price = Some(Quote2)

\* the call in progress is a valuation
Valuing == call.op \in ValuationCalls

\* the events of the call in progress happen in the order: one read of the
\* store, then the lookups, each answered before the next is asked, then the
\* figures, computed when every lookup has its answer and every position's
\* symbol has been looked up
events_in_order ==
    LET ev == call.events
    IN  /\ \A k \in 1..Len(ev) : (ev[k].event = "read") = (k = 1)
        /\ \A k \in 1..Len(ev) :
              ev[k].event = "ask" =>
                 \/ k = Len(ev)
                 \/ ev[k + 1].event = "answer" /\ ev[k + 1].symbol = ev[k].symbol
        /\ \A k \in 1..Len(ev) :
              ev[k].event = "answer" => ev[k - 1].event = "ask"
        /\ \A k \in 1..Len(ev) :
              ev[k].event = "compute" =>
                 /\ k = Len(ev)
                 /\ ev[k - 1].event = "answer"
                 /\ \A i \in 1..Len(call.listing) :
                       \E j \in 1..(k - 1) :
                          /\ ev[j].event = "answer"
                          /\ ev[j].symbol = provider_symbol(call.listing[i].asset_symbol,
                                                            call.listing[i].asset_type)

\* C21: in a get_positions_with_metrics call the store is read first, then
\* the provider is asked in one batch, then the figures are computed, when
\* every lookup has resolved; and the batch asks for each distinct symbol
\* once, however many positions hold it. The batch is built from the list of
\* the positions, one pair per position, so a symbol held twice is asked for
\* twice.
C21_StoreThenDistinctLookupsThenFigures ==
    Valuing =>
        /\ events_in_order
        /\ \A j, k \in 1..Len(call.events) :
              (/\ j < k
               /\ call.events[j].event = "ask"
               /\ call.events[k].event = "ask")
                  => call.events[j].symbol # call.events[k].symbol

\* C22: every call of get_current_price, get_multiple_prices,
\* get_positions_with_metrics and get_portfolio_summary that has started
\* returns in the end, and a lookup that the provider ends with a timeout or
\* another exception leaves None (unavailable) for its symbol.
C22_EveryCallReturns ==
    /\ \A op \in PriceCalls \cup ValuationCalls :
          (call.op = op /\ call.pc # "idle") ~> (call.pc = "idle" /\ ret.op = op)
    /\ [](\A k \in 1..Len(call.events) :
             (/\ k = Len(call.events)
              /\ call.events[k].event = "answer"
              /\ fetch(call.events[k].ticker).exc # "")
                => /\ call.exc = ""
                   /\ call.results[call.symbols[call.i - 1][1]] = None)

\* a summary about to return after the provider timed out on both lookups
C22_Witness ==
    /\ call.op = "get_portfolio_summary"
    /\ call.pc = "return"
    /\ Len(call.listing) = 2
    /\ \A k \in 1..Len(call.events) :
          call.events[k].event = "answer" => call.events[k].ticker = TimedOut
    /\ \A i \in 1..2 : call.results[call.listing[i].asset_symbol] = None

\* C23: a price that get_current_price or get_multiple_prices yields (rather
\* than None for unavailable) is a Decimal greater than 0, for a stock and
\* for a cryptocurrency. The price is Decimal(str(v)) of whatever value v the
\* provider holds, so a provider value of 0.0 is yielded as the price 0.0.
C23_PriceIsPositive ==
    /\ (ret.op = "get_current_price" /\ ret.val.price # None)
          => Decimal_gt0(ret.val.price[1])
    /\ (ret.op = "get_multiple_prices" /\ ret.error = "")
          => \A symbol \in DOMAIN ret.val.prices :
                ret.val.prices[symbol] # None => Decimal_gt0(ret.val.prices[symbol][1])

\* a field of the provider's data that is present and not null
populated(data, field) == field \in DOMAIN data /\ data[field] # PyNone

\* an answer of the provider no part of which raises, and whose values are
\* numbers or null
plain(ticker) ==
    /\ ticker.ctor = "" /\ ticker.info.exc = ""
    /\ ticker.fast_info.exc = "" /\ ticker.history.exc = ""
    /\ \A f \in DOMAIN ticker.info.val : ticker.info.val[f].type \in {"float", "NoneType"}
    /\ \A f \in DOMAIN ticker.fast_info.val :
          ticker.fast_info.val[f].type \in {"float", "NoneType"}
    /\ \A i \in DOMAIN ticker.history.val : ticker.history.val[i].type = "float"

\* C24: get_current_price returns the first of regularMarketPrice,
\* currentPrice, price, regularMarketPreviousClose that is present and not
\* null; if none is, the fast last price if that is present and not null;
\* if not, the most recent historical close; and None, never an exception,
\* when the provider has nothing usable. The code asks only whether the key
\* last_price is present, so a null last price is converted, which raises,
\* and the call returns None without reading the history.
C24_PreferenceOrderThenFallbacks ==
    ret.op = "get_current_price" =>
        LET ticker == ret.val.yf[ret.val.query]
            info == ticker.info.val
            fast_info == ticker.fast_info.val
            hist == ticker.history.val
            live == {i \in 1..Len(price_fields) : populated(info, price_fields[i])}
        IN  /\ ret.error = ""
            /\ plain(ticker) =>
                  ret.val.price =
                     IF live # {}
                     THEN Some(info[price_fields[CHOOSE i \in live : \A j \in live : i <= j]].value)
                     ELSE IF populated(fast_info, "last_price")
                     THEN Some(fast_info.last_price.value)
                     ELSE IF hist # <<>> THEN Some(hist[Len(hist)].value)
                     ELSE None

\* the price of a position's own (symbol, asset type) pair, 0 for None
own_price(position, yf) ==
    LET price == get_current_price(position.asset_symbol, position.asset_type, yf).val
    IN  IF price = None THEN Zero ELSE price[1]

\* C25: the current_price of every entry of get_positions_with_metrics is
\* the price resolved for that position's own (symbol, asset type) pair, also
\* when two positions hold one symbol as a stock and as a cryptocurrency.
\* The prices are kept in a dictionary keyed by the symbol alone, so the two
\* positions share one key and both are given the price looked up last.
C25_PriceOfOwnPair ==
    Valued =>
        \A i \in 1..Len(ret.val.listing) :
            Decimal_eq(ret.val.entries[i].current_price,
                       own_price(ret.val.listing[i], ret.val.yf))

\* C26: the result of get_multiple_prices is keyed by the symbols as given,
\* not by the symbols with the -USD suffix that the provider is asked for, so
\* get_positions_with_metrics finds an entry under the stored symbol of
\* every position, and a cryptocurrency position stored under a bare ticker
\* is given the price that its symbol with the suffix resolved to, not the
\* zero substitute. The keys are as stated; but the key does not tell a
\* cryptocurrency from a stock of the same symbol, and when the stock is
\* looked up last the cryptocurrency position is given the stock's outcome.
C26_KeyedBySymbolAsGiven ==
    (Valued /\ ret.val.listing # <<>>) =>
        LET listing == ret.val.listing
            prices == resolved(listing, ret.val.yf)
        IN  /\ DOMAIN prices = {listing[i].asset_symbol : i \in 1..Len(listing)}
            /\ \A i \in 1..Len(listing) :
                  (/\ listing[i].asset_type = CRYPTOCURRENCY
                   /\ ~endswith(listing[i].asset_symbol, USD))
                     => LET quote == fetch(ret.val.yf[listing[i].asset_symbol \o USD])
                        IN  (quote.exc = "" /\ quote.val # None)
                               => Decimal_eq(ret.val.entries[i].current_price, quote.val[1])

\* the price kept for the position's symbol is None
unavailable(position, listing, yf) == resolved(listing, yf)[position.asset_symbol] = None

\* C27: an entry of a position whose price is unavailable has the current
\* price 0, the current value 0, the profit_loss -(total cost) and the
\* roi_percentage -100; and when the prices of all positions of a store that
\* is not empty are unavailable, the summary has the total_value 0, the
\* total_profit_loss -(total_cost) and the total_roi_percentage -100. The
\* amounts are compared by value.
C27_UnavailableIsTotalLoss ==
    /\ Valued =>
          \A i \in 1..Len(ret.val.listing) :
              unavailable(ret.val.listing[i], ret.val.listing, ret.val.yf) =>
                 LET entry == ret.val.entries[i]
                 IN  /\ Decimal_is_zero(entry.current_price)
                     /\ Decimal_is_zero(entry.current_value)
                     /\ Decimal_eq(entry.profit_loss,
                                   Decimal_neg(total_cost(ret.val.listing[i])))
                     /\ Decimal_eq(entry.roi_percentage, Decimal_neg(Hundred))
    /\ (/\ Summed
        /\ ret.val.listing # <<>>
        /\ \A i \in 1..Len(ret.val.listing) :
              unavailable(ret.val.listing[i], ret.val.listing, ret.val.yf))
          => LET summary == ret.val.summary[1]
             IN  /\ Decimal_is_zero(summary.total_value)
                 /\ Decimal_eq(summary.total_profit_loss, Decimal_neg(summary.total_cost))
                 /\ Decimal_eq(summary.total_roi_percentage, Decimal_neg(Hundred))

\* the summary of two positions for which the provider has nothing: all lost
C27_Witness ==
    /\ Summed
    /\ Len(ret.val.listing) = 2
    /\ ret.val.yf = Market(Unlisted, Unlisted)
    /\ Decimal_gt0(ret.val.summary[1].total_cost)
    /\ Decimal_eq(ret.val.summary[1].total_roi_percentage, Decimal_neg(Hundred))

ReadOnlyCalls == {"get_position", "get_all_positions"} \cup PriceCalls \cup ValuationCalls

\* C28: get_position, get_all_positions, get_positions_with_metrics,
\* get_portfolio_summary, get_current_price and get_multiple_prices leave the
\* stored positions as they are, the last-modified timestamps included,
\* whatever the provider answers: no step of such a call, and no return of
\* one, changes the store.
C28_ReadsLeaveStoreUnchanged ==
    [][(call' # call \/ ret'.op \in ReadOnlyCalls) => positions' = positions]_vars

\* a summary has returned over two stored positions, after the provider
\* timed out, and the store still holds the two rows that were listed
C28_Witness ==
    /\ ret.op = "get_portfolio_summary"
    /\ ret.val # None
    /\ Len(ret.val[1].listing) = 2
    /\ positions = {ret.val[1].listing[i] : i \in 1..2}
    /\ Ids(positions) = issued

\* C29: create_position adds one position and leaves the stored ones as they
\* are; update_position changes no position but the one with the given
\* identifier and leaves the number of positions as it is; delete_position
\* removes no position but the one with the given identifier.
C29_OnlyOwnRecord ==
    [][/\ ret'.op = "create_position" =>
             /\ positions \subseteq positions'
             /\ positions' \ positions = {ret'.val[1]}
             /\ Cardinality(positions') = Cardinality(positions) + 1
       /\ ret'.op = "update_position" =>
             /\ Cardinality(positions') = Cardinality(positions)
             /\ Ids(positions') = Ids(positions)
             /\ {p \in positions' : p.id # ret'.id} = {p \in positions : p.id # ret'.id}
       /\ ret'.op = "delete_position" =>
             positions' = {p \in positions : p.id # ret'.id}]_vars

\* the store after the first of two positions was deleted: the second is
\* still there, with the values it was given
C29_Witness ==
    /\ ret.op = "delete_position"
    /\ ret.ok
    /\ ret.id \in deleted
    /\ \E p \in positions : p.id > ret.id
    /\ {Fields(p) : p \in positions} = expected

\* the per-position figures that the summary was computed from
summarized == get_positions_with_metrics(ret.val.listing, ret.val.yf).val

\* C30: the total_roi_percentage of the summary of a store that is not
\* empty, all of whose positions have a total cost greater than 0, is the
\* cost-weighted mean of the roi_percentage of the positions at the same
\* prices, so it is not below the smallest and not above the largest of them.
C30_TotalRoiWithinPositionRois ==
    (Summed /\ ret.val.listing # <<>>) =>
        LET total == ret.val.summary[1].total_roi_percentage
            n == Len(ret.val.listing)
        IN  /\ \E i \in 1..n : ~Decimal_lt(total, summarized[i].roi_percentage)
            /\ \E i \in 1..n : ~Decimal_lt(summarized[i].roi_percentage, total)

====
